---- MODULE Spec2Model ----
(***************************************************************************)
(* A model of pynmr: the Bruker parameter reader and writer of             *)
(* pynmr/__init__.py (getpar, wparfile) and the pulse library of           *)
(* pynmr/pulse/pulse.py (generate, smoothing, writebruk).                  *)
(*                                                                         *)
(* Text is modelled character by character: a Python str is a sequence of  *)
(* one-character strings, a text file is a sequence of lines, each ending  *)
(* in "\n".  Waveform samples are real numbers computed with sin/cos; the  *)
(* model keeps of an array only what the control flow depends on (its      *)
(* length and representation), and of the exporter's inputs integer        *)
(* samples on the coordinate axes, where the conversions are exact.        *)
(***************************************************************************)
EXTENDS Integers, Sequences, FiniteSets, TLC

VARIABLES
    pc,       \* getpar: position of the call in its code
    file,     \* getpar: the lines of the file at `path`
    par,      \* getpar: the parameter name, as the code rebinds it
    pos,      \* getpar: number of lines of parfile consumed so far
    l,        \* getpar: the local l, the line readline() last returned
    ans,      \* getpar: the local ans
    nreads,   \* getpar: reads of parfile issued (iteration steps and readline calls)
    result,   \* getpar: the returned str
    exc,      \* getpar: the exception that ended the call, "none" if none
    diag,     \* getpar: whether "Parameter ... not found." was printed
    fs,       \* the directory tree wparfile and writebruk see
    last      \* the last completed call of wparfile, generate, smoothing, writebruk

vars == <<pc, file, par, pos, l, ans, nreads, result, exc, diag, fs, last>>

readerVars == <<pc, file, par, pos, l, ans, nreads, result, exc, diag>>

----------------------------------------------------------------------------
(* Bounds of the model *)

\* longest parameter file, in lines
MaxLines == 4
\* reads past the end of the file that the model follows before it stops
MaxEofReads == 2
\* longest list of names or values passed to wparfile
MaxPairs == 2
\* largest point count passed to generate and smoothing
MaxPoints == 2
\* longest series passed to writebruk
MaxSeries == 2

----------------------------------------------------------------------------
(* Python str operations, on sequences of one-character strings *)

Whitespace == {" ", "\t", "\n", "\r", "\f"}

Digits == {"0", "1", "2", "3", "4", "5", "6", "7", "8", "9"}

UpperCase == <<"A","B","C","D","E","F","G","H","I","J","K","L","M",
               "N","O","P","Q","R","S","T","U","V","W","X","Y","Z">>

LowerCase == <<"a","b","c","d","e","f","g","h","i","j","k","l","m",
               "n","o","p","q","r","s","t","u","v","w","x","y","z">>

\* str.lower() on one character
LowerChar(c) ==
    IF \E i \in 1..Len(UpperCase) : UpperCase[i] = c
    THEN LowerCase[CHOOSE i \in 1..Len(UpperCase) : UpperCase[i] = c]
    ELSE c

\* s.lower()
Lower(s) == [i \in 1..Len(s) |-> LowerChar(s[i])]

\* s.startswith(p)
StartsWith(s, p) == Len(s) >= Len(p) /\ SubSeq(s, 1, Len(p)) = p

\* s.rstrip(chars): drop the longest suffix made of characters of cs
RECURSIVE RStripChars(_, _)
RStripChars(s, cs) ==
    IF s # <<>> /\ s[Len(s)] \in cs
    THEN RStripChars(SubSeq(s, 1, Len(s) - 1), cs)
    ELSE s

\* s.lstrip(chars)
RECURSIVE LStripChars(_, _)
LStripChars(s, cs) ==
    IF s # <<>> /\ s[1] \in cs THEN LStripChars(Tail(s), cs) ELSE s

\* s.rstrip()
RStrip(s) == RStripChars(s, Whitespace)

\* s.strip(chars)
StripChars(s, cs) == LStripChars(RStripChars(s, cs), cs)

\* s.split(): the maximal runs of non-whitespace characters, in order
RECURSIVE SplitWS(_)
SplitWS(s) ==
    LET t == LStripChars(s, Whitespace)
        n == IF \E i \in 1..Len(t) : t[i] \in Whitespace
             THEN (CHOOSE i \in 1..Len(t) :
                      /\ t[i] \in Whitespace
                      /\ \A j \in 1..(i - 1) : t[j] \notin Whitespace) - 1
             ELSE Len(t)
    IN  IF t = <<>> THEN <<>>
        ELSE <<SubSeq(t, 1, n)>> \o SplitWS(SubSeq(t, n + 1, Len(t)))

\* "".join(parts)
RECURSIVE Join(_)
Join(parts) == IF parts = <<>> THEN <<>> ELSE Head(parts) \o Join(Tail(parts))

\* index of the first occurrence of character c in s, 0 if there is none
Find(s, c) ==
    IF \E i \in 1..Len(s) : s[i] = c
    THEN CHOOSE i \in 1..Len(s) : s[i] = c /\ \A j \in 1..(i - 1) : s[j] # c
    ELSE 0

\* s.split(' ', 2): at most three fields, cut at the first two spaces
SplitSpace2(s) ==
    LET i == Find(s, " ")
        r == SubSeq(s, i + 1, Len(s))
        j == Find(r, " ")
    IN  IF i = 0 THEN <<s>>
        ELSE IF j = 0 THEN <<SubSeq(s, 1, i - 1), r>>
        ELSE <<SubSeq(s, 1, i - 1), SubSeq(r, 1, j - 1), SubSeq(r, j + 1, Len(r))>>

DigitValue(c) == CHOOSE d \in 0..9 : <<"0","1","2","3","4","5","6","7","8","9">>[d + 1] = c

\* int(s) for a non-empty string of decimal digits
RECURSIVE ParseInt(_)
ParseInt(s) ==
    IF s = <<>> THEN 0
    ELSE 10 * ParseInt(SubSeq(s, 1, Len(s) - 1)) + DigitValue(s[Len(s)])

----------------------------------------------------------------------------
(* The parameter files and names the reader is run on *)

\* "##$Td= <a>\n": a scalar directive, in mixed case, with a string value
LineTd == <<"#","#","$","T","d","="," ","<","a",">","\n">>
\* "##$TD=5\n": the same directive with no space before its value
LineTdNoSpace == <<"#","#","$","T","D","=","5","\n">>
\* "##$C= (0..1)\n": a list directive
LineC == <<"#","#","$","C","="," ","(","0",".",".","1",")","\n">>
\* "##$C1= 7\n": a directive whose name ends in an index
LineC1 == <<"#","#","$","C","1","="," ","7","\n">>
\* "a <b> \n": a continuation line of two tokens, with a trailing blank
LineTokens == <<"a"," ","<","b",">"," ","\n">>
\* "##END=\n": another line starting with ##
LineEnd == <<"#","#","E","N","D","=","\n">>

Lines == {LineTd, LineTdNoSpace, LineC, LineC1, LineTokens, LineEnd}

RECURSIVE SeqsUpTo(_, _)
SeqsUpTo(S, n) ==
    IF n = 0 THEN {<<>>}
    ELSE LET shorter == SeqsUpTo(S, n - 1)
         IN  shorter \cup {Append(q, x) : q \in shorter, x \in S}

Files == SeqsUpTo(Lines, MaxLines)

\* "TD", "T D", "C", "C1", "C2", "X"
Names == {<<"T","D">>, <<"T"," ","D">>, <<"C">>, <<"C","1">>, <<"C","2">>, <<"X">>}

----------------------------------------------------------------------------
(* getpar(path, par) *)

\* lines 36-37: remove any spaces from par
NormalisePar(p) == IF Len(SplitWS(p)) > 1 THEN Join(SplitWS(p)) ELSE p

\* line 39: parshort = par.rstrip("1234567890")
ParShort(p) == RStripChars(p, Digits)

\* line 40: longstr = "##$" + par.lower() + "="
LongStr(p) == <<"#","#","$">> \o Lower(p) \o <<"=">>

\* line 61: shortstr = "##$" + parshort.lower() + "="
ShortStr(p) == <<"#","#","$">> \o Lower(ParShort(p)) \o <<"=">>

\* the index taken as one-based: CNST1 for the first token
ParIndexOneBased(p) == ParseInt(SubSeq(p, Len(ParShort(p)) + 1, Len(p))) - 1

\* line 76: num = int(par[len(parshort):])
ParIndex(p) == ParseInt(SubSeq(p, Len(ParShort(p)) + 1, Len(p)))

\* parfile.readline(), and the next line of `for line in parfile`: the line
\* after the pos lines consumed, "" at the end of the file
NextLine == IF pos < Len(file) THEN file[pos + 1] ELSE <<>>

NextPos == IF pos < Len(file) THEN pos + 1 ELSE pos

\* lines 51 and 54, 72: the tests on ans and l
IsListMarker(a) == a[1] = "(" /\ a[Len(a)] = ")"

EndsList(line) == StartsWith(line, <<"#","#">>)

\* the continuation lines glued with no space between them
AccumulateNoSeparator(a, line) == a \o RStrip(line)

\* lines 55, 73: ans = ans + l.rstrip() + " "
Accumulate(a, line) == a \o RStrip(line) \o <<" ">>

\* a call: the arguments are bound, lines 36-41 run, the file is opened.
\* getpar keeps nothing between calls, so every call starts from "idle"
GetparCall ==
    /\ pc = "idle"
    /\ \E f \in Files, p \in Names :
        /\ file' = f
        /\ par' = NormalisePar(p)
    /\ pc' = "scan"
    /\ pos' = 0
    /\ l' = <<>>
    /\ ans' = <<>>
    /\ nreads' = 0
    /\ result' = <<>>
    /\ exc' = "none"
    /\ diag' = FALSE
    /\ UNCHANGED <<fs, last>>

\* lines 46-58: one iteration of the loop over the file, for a name with no
\* trailing digits
ScanPlain ==
    /\ pc = "scan"
    /\ ParShort(par) = par
    /\ nreads' = nreads + 1
    /\ pos' = NextPos
    /\ IF pos = Len(file)
       THEN \* the file is exhausted: the loop ends
            /\ pc' = "return"
            /\ UNCHANGED <<l, ans, exc>>
       ELSE LET line == NextLine
                fields == SplitSpace2(line)
                value == RStrip(fields[2])
            IN  IF ~StartsWith(Lower(line), LongStr(par))
                THEN /\ pc' = "scan"
                     /\ UNCHANGED <<l, ans, exc>>
                ELSE IF Len(fields) < 2 \/ value = <<>>
                THEN \* line 49, fields[1], or line 51, ans[0], is out of range
                     /\ pc' = "raised"
                     /\ exc' = "IndexError"
                     /\ ans' = IF Len(fields) < 2 THEN ans ELSE value
                     /\ UNCHANGED l
                ELSE IF IsListMarker(value)
                THEN \* the value is a list marker: lines 52-53 come next
                     /\ pc' = "plainfirst"
                     /\ ans' = value
                     /\ UNCHANGED <<l, exc>>
                ELSE \* line 58
                     /\ pc' = "return"
                     /\ ans' = value
                     /\ UNCHANGED <<l, exc>>
    /\ UNCHANGED <<file, par, result, diag, fs, last>>

\* lines 63-78: one iteration of the loop over the file, for a name with
\* trailing digits
ScanIndexed ==
    /\ pc = "scan"
    /\ ParShort(par) # par
    /\ nreads' = nreads + 1
    /\ pos' = NextPos
    /\ IF pos = Len(file)
       THEN /\ pc' = "return"
            /\ UNCHANGED <<l, ans, exc>>
       ELSE LET line == NextLine
                fields == SplitSpace2(line)
            IN  IF StartsWith(Lower(line), LongStr(par))
                THEN \* lines 65-67: things like SFO1
                     IF Len(fields) < 2
                     THEN /\ pc' = "raised"
                          /\ exc' = "IndexError"
                          /\ UNCHANGED <<l, ans>>
                     ELSE /\ pc' = "return"
                          /\ ans' = RStrip(fields[2])
                          /\ UNCHANGED <<l, exc>>
                ELSE IF StartsWith(Lower(line), ShortStr(par))
                THEN \* line 69: things like CNST20; lines 70-71 come next
                     /\ pc' = "indexfirst"
                     /\ UNCHANGED <<l, ans, exc>>
                ELSE /\ pc' = "scan"
                     /\ UNCHANGED <<l, ans, exc>>
    /\ UNCHANGED <<file, par, result, diag, fs, last>>

\* lines 52-53 and 70-71: l = parfile.readline(); ans = ""
ReadFirst ==
    /\ pc \in {"plainfirst", "indexfirst"}
    /\ l' = NextLine
    /\ pos' = NextPos
    /\ nreads' = nreads + 1
    /\ ans' = <<>>
    /\ pc' = IF pc = "plainfirst" THEN "plainlist" ELSE "indexlist"
    /\ UNCHANGED <<file, par, result, exc, diag, fs, last>>

\* lines 54-56 and 72-74: one iteration of `while not l.startswith("##")`.
\* At the end of the file readline() returns "", which does not start with
\* "##": the loop goes on; the model follows MaxEofReads such reads.
ListStep ==
    /\ pc \in {"plainlist", "indexlist"}
    /\ ~EndsList(l)
    /\ pos < Len(file) \/ nreads - pos < MaxEofReads
    /\ ans' = Accumulate(ans, l)
    /\ l' = NextLine
    /\ pos' = NextPos
    /\ nreads' = nreads + 1
    /\ UNCHANGED <<pc, file, par, result, exc, diag, fs, last>>

\* lines 57-58: the loop of lines 54-56 has ended
ListEndPlain ==
    /\ pc = "plainlist"
    /\ EndsList(l)
    /\ ans' = RStrip(ans)
    /\ pc' = "return"
    /\ UNCHANGED <<file, par, pos, l, nreads, result, exc, diag, fs, last>>

\* lines 75-78: the loop of lines 72-74 has ended
ListEndIndexed ==
    /\ pc = "indexlist"
    /\ EndsList(l)
    /\ LET tokens == SplitWS(RStrip(ans))
           num == ParIndex(par)
       IN  IF num < Len(tokens)
           THEN /\ ans' = tokens[num + 1]
                /\ pc' = "return"
                /\ UNCHANGED exc
           ELSE \* line 77: ans[num] is out of range
                /\ pc' = "raised"
                /\ exc' = "IndexError"
                /\ UNCHANGED ans
    /\ UNCHANGED <<file, par, pos, l, nreads, result, diag, fs, last>>

\* a reader for which a parameter that is not found is a hard failure
GetparReturnOrRaise ==
    /\ pc = "return"
    /\ diag' = (ans = <<>>)
    /\ IF ans = <<>>
       THEN pc' = "raised" /\ exc' = "KeyError" /\ UNCHANGED result
       ELSE pc' = "done" /\ result' = StripChars(ans, {"<", ">"}) /\ UNCHANGED exc
    /\ UNCHANGED <<file, par, pos, l, ans, nreads, fs, last>>

\* lines 79-81
GetparReturn ==
    /\ pc = "return"
    /\ diag' = (ans = <<>>)
    /\ result' = StripChars(ans, {"<", ">"})
    /\ pc' = "done"
    /\ UNCHANGED <<file, par, pos, l, ans, nreads, exc, fs, last>>

----------------------------------------------------------------------------
(* The directory tree, and wparfile(dir, expno, par, val) *)

\* the directories named in calls, and the experiment numbers
Dirs == {"data"}

Expnos == {1}

\* the path writebruk is given
ShapePath == <<"shape">>

\* Path(dir) / str(expno)
ExpPath(dir, expno) == <<dir, ToString(expno)>>

\* p.parent
Parent(p) == SubSeq(p, 1, Len(p) - 1)

Paths == {<<d>> : d \in Dirs} \cup {ExpPath(d, e) : d \in Dirs, e \in Expnos} \cup {ShapePath}

NoNode == [kind |-> "none", text |-> <<>>]

DirNode == [kind |-> "dir", text |-> <<>>]

FileNode(text) == [kind |-> "file", text |-> text]

\* a line some earlier writer left in a file
OldLine == <<"old", " : ", 0, "\n">>

\* the trees a call can find: an entry exists only inside a directory
Trees ==
    {t \in [Paths -> {NoNode, DirNode, FileNode(<<>>), FileNode(<<OldLine>>)}] :
        \A p \in Paths : Len(p) > 1 /\ t[p].kind # "none" => t[Parent(p)].kind = "dir"}

\* Path.is_dir()
IsDir(tree, p) == tree[p].kind = "dir"

\* the names and values passed: a scalar, or a list
ParNames == {"P1", "P2"}

ParValues == {10}

Scalar(x) == [list |-> FALSE, v |-> x]

List(xs) == [list |-> TRUE, v |-> xs]

ParArgs == {Scalar(x) : x \in ParNames} \cup {List(xs) : xs \in SeqsUpTo(ParNames, MaxPairs)}

ValArgs == {Scalar(x) : x \in ParValues} \cup {List(xs) : xs \in SeqsUpTo(ParValues, MaxPairs)}

\* lines 87-90: convert non-lists to lists
Coerce(x) == IF x.list THEN x.v ELSE <<x.v>>

\* line 97: one "{} : {}\n" per pair, in order
ParText(names, values) == [i \in 1..Len(names) |-> <<names[i], " : ", values[i], "\n">>]

\* the platform's error for opening a directory for writing
OpenDirErrors == {"IsADirectoryError", "PermissionError"}

\* Path.write_text / open(p, 'w') on tree: the file is created or truncated
\* and written; opening a directory fails with the platform's error e
WriteText(tree, p, text, e) ==
    IF tree[p].kind = "dir"
    THEN [exc |-> e, fs |-> tree]
    ELSE [exc |-> "none", fs |-> [tree EXCEPT ![p] = FileNode(text)]]

\* the same call with the directory looked up before the lengths are compared
WparfileRunDirFirst(dir, expno, p, v, e) ==
    LET path == ExpPath(dir, expno)
        names == Coerce(p)
        values == Coerce(v)
        written == WriteText(fs, path, ParText(names, values), e)
    IN  IF ~IsDir(fs, Parent(path))
        THEN [exc |-> "OSError", ret |-> <<>>, fs |-> fs,
              fsops |-> << <<"is_dir", Parent(path)>> >>]
        ELSE IF Len(names) # Len(values)
        THEN [exc |-> "IndexError", ret |-> <<>>, fs |-> fs,
              fsops |-> << <<"is_dir", Parent(path)>> >>]
        ELSE [exc |-> written.exc,
              ret |-> IF written.exc = "none" THEN <<1>> ELSE <<>>,
              fs |-> written.fs,
              fsops |-> << <<"is_dir", Parent(path)>>, <<"write_text", path>> >>]

\* lines 84-99: the outcome of a call on the tree fs: the exception raised,
\* the value returned (if any), the tree left behind, and the filesystem
\* operations issued
WparfileRun(dir, expno, p, v, e) ==
    LET path == ExpPath(dir, expno)
        names == Coerce(p)
        values == Coerce(v)
        written == WriteText(fs, path, ParText(names, values), e)
    IN  IF Len(names) # Len(values)
        THEN [exc |-> "IndexError", ret |-> <<>>, fs |-> fs, fsops |-> <<>>]
        ELSE IF ~IsDir(fs, Parent(path))
        THEN [exc |-> "OSError", ret |-> <<>>, fs |-> fs,
              fsops |-> << <<"is_dir", Parent(path)>> >>]
        ELSE [exc |-> written.exc,
              ret |-> IF written.exc = "none" THEN <<1>> ELSE <<>>,
              fs |-> written.fs,
              fsops |-> << <<"is_dir", Parent(path)>>, <<"write_text", path>> >>]

Wparfile ==
    /\ \E dir \in Dirs, expno \in Expnos, p \in ParArgs, v \in ValArgs, e \in OpenDirErrors :
        LET out == WparfileRun(dir, expno, p, v, e)
        IN  /\ fs' = out.fs
            /\ last' = [op |-> "wparfile", dir |-> dir, expno |-> expno, par |-> p,
                        val |-> v, exc |-> out.exc, ret |-> out.ret, fsops |-> out.fsops]
    /\ UNCHANGED readerVars

----------------------------------------------------------------------------
(* pulse.py: generate, smoothing, writebruk *)

\* Python's None, and the built-in function `format`: objects equal to no str
PyNone == "<None>"

BuiltinFormat == "<built-in function format>"

\* the function object `smoothing`, which line 120 compares with 1
SmoothingFunction == "<function smoothing>"

PulseTypes == {"wurst", "chirp", "saltire", "gauss"}

Forms == {"polar", "cart", PyNone, "xy"}

SmoothingValues == {-1, 0, 1, 2, 50, 51, 60}

ProfileTypes == {"quartersine", PyNone, "sinebell", "gauss"}

\* an array of n samples in the given representation; the samples
\* themselves are real numbers the model does not compute
Waveform(repr, n) == [repr |-> repr, n |-> n]

\* lines 8-11 on a waveform: the representation becomes Cartesian
Polar2CartWave(w) == Waveform("cart", w.n)

\* lines 14-17 on a waveform
Cart2PolarWave(w) == Waveform("polar", w.n)

\* line 29: the WURST index must be 1 or greater
WurstSmoothingError(smooth) == smooth < 1

\* a range check that turns away the boundary values 0 and 50
ChirpSmoothingErrorStrict(smooth) == smooth <= 0 \/ smooth >= 50

\* line 42: the chirp smoothing factor must be between 0 and 50
ChirpSmoothingError(smooth) == smooth < 0 \/ smooth > 50

\* line 66: the same range for a saltire pulse
SaltireSmoothingError(smooth) == smooth < 0 \/ smooth > 50

\* lines 28-91: the pulse in polar form, or the ValueError raised
GenerateShape(points, smooth, type) ==
    IF type = "wurst"
    THEN IF WurstSmoothingError(smooth)
         THEN [exc |-> "ValueError", ret |-> <<>>]
         ELSE [exc |-> "none", ret |-> <<Waveform("polar", points)>>]
    ELSE IF type = "chirp"
    THEN IF ChirpSmoothingError(smooth)
         THEN [exc |-> "ValueError", ret |-> <<>>]
         ELSE [exc |-> "none", ret |-> <<Waveform("polar", points)>>]
    ELSE IF type = "saltire"
    THEN IF SaltireSmoothingError(smooth)
         THEN [exc |-> "ValueError", ret |-> <<>>]
         ELSE \* lines 83-88: to Cartesian, Cy zeroed, back to polar
              [exc |-> "none",
               ret |-> <<Cart2PolarWave(Polar2CartWave(Waveform("polar", points)))>>]
    ELSE [exc |-> "ValueError", ret |-> <<>>]

\* lines 93-99: the form the pulse is returned in
GenerateForm(shape, form) ==
    IF shape.exc # "none" THEN shape
    ELSE IF form = "polar" \/ form = PyNone THEN shape
    ELSE IF form = "cart" THEN [exc |-> "none", ret |-> <<Polar2CartWave(shape.ret[1])>>]
    ELSE [exc |-> "ValueError", ret |-> <<>>]

\* lines 20-99; duration and bandwidth only scale the phases
GenerateRun(points, smooth, type, form) ==
    GenerateForm(GenerateShape(points, smooth, type), form)

Generate ==
    /\ \E points \in 1..MaxPoints, smooth \in SmoothingValues,
          type \in PulseTypes, form \in Forms :
        LET out == GenerateRun(points, smooth, type, form)
        IN  last' = [op |-> "generate", points |-> points, smoothing |-> smooth,
                     type |-> type, form |-> form, exc |-> out.exc, ret |-> out.ret]
    /\ UNCHANGED <<fs, readerVars>>

\* line 120: `smoothing < 1` compares the function itself with an int
CompareFunctionWithInt(f, n) == [exc |-> "TypeError", ret |-> <<>>]

\* lines 102-126
SmoothingRun(smooth_percentage, points, type) ==
    IF type = "quartersine" \/ type = PyNone
    THEN IF smooth_percentage < 0 \/ smooth_percentage > 50
         THEN [exc |-> "ValueError", ret |-> <<>>]
         ELSE [exc |-> "none", ret |-> <<Waveform("envelope", points)>>]
    ELSE IF type = "sinebell"
    THEN CompareFunctionWithInt(SmoothingFunction, 1)
    ELSE \* line 126: smoothfunc was never assigned
         [exc |-> "UnboundLocalError", ret |-> <<>>]

Smoothing ==
    /\ \E sp \in SmoothingValues, points \in 1..MaxPoints, type \in ProfileTypes :
        LET out == SmoothingRun(sp, points, type)
        IN  last' = [op |-> "smoothing", smooth_percentage |-> sp, points |-> points,
                     type |-> type, exc |-> out.exc, ret |-> out.ret]
    /\ UNCHANGED <<fs, readerVars>>

\* the series passed to writebruk: amplitudes or x-coefficients in l1, and
\* in l2 phases or y-coefficients that are zero, where the Coordinate
\* Converter is exact in integers
SeriesOne == SeqsUpTo({0, 1, 2}, MaxSeries)

SeriesTwo == SeqsUpTo({0}, MaxSeries)

\* math.cos, math.sin and math.atan2(0, x >= 0), at the phase 0
Cos(phi) == CASE phi = 0 -> 1

Sin(phi) == CASE phi = 0 -> 0

Hypot(x, y) == CHOOSE r \in 0..(x + y) : r * r = x * x + y * y

\* lines 8-11
Polar2Cart(A, phi) ==
    [x |-> [i \in 1..Len(A) |-> A[i] * Cos(phi[i])],
     y |-> [i \in 1..Len(A) |-> A[i] * Sin(phi[i])]]

\* lines 14-17
Cart2Polar(x, y) ==
    [A |-> [i \in 1..Len(x) |-> Hypot(x[i], y[i])],
     phi |-> [i \in 1..Len(x) |-> 0]]

\* max() and min() of a non-empty series
Max(xs) == CHOOSE m \in {xs[i] : i \in 1..Len(xs)} : \A i \in 1..Len(xs) : xs[i] <= m

Min(xs) == CHOOSE m \in {xs[i] : i \in 1..Len(xs)} : \A i \in 1..Len(xs) : xs[i] >= m

\* lines 149-182: normalise, convert and write the shape file
ExportShape(A, phi, x, y, path, title, e) ==
    IF A = <<>>
    THEN \* line 149: max() of an empty series
         [exc |-> "ValueError", ret |-> <<>>, fs |-> fs]
    ELSE LET max_amp == Max(A)
             percent == [i \in 1..Len(A) |->
                            IF max_amp = 0 THEN "nan" ELSE (A[i] * 100) \div max_amp]
             degrees == [i \in 1..Len(phi) |-> phi[i] * 180 + 180]
             header == [title |-> title, minx |-> Min(x), maxx |-> Max(x),
                        miny |-> Min(y), maxy |-> Max(y), npoints |-> Len(A)]
             rows == [i \in 1..Len(A) |-> <<percent[i], degrees[i]>>]
             written == WriteText(fs, path, <<header, rows, "##END=">>, e)
         IN  [exc |-> written.exc,
              ret |-> IF written.exc = "none" THEN <<max_amp>> ELSE <<>>,
              fs |-> written.fs]

\* lines 129-182.  Lines 139 and 143 test the name `format`, which is not
\* the parameter `form` but Python's built-in function
WritebrukRun(l1, l2, path, form, title, e) ==
    LET format == BuiltinFormat
    IN  IF format = "polar"
        THEN ExportShape(l1, l2, Polar2Cart(l1, l2).x, Polar2Cart(l1, l2).y, path, title, e)
        ELSE IF format = "cart"
        THEN ExportShape(Cart2Polar(l1, l2).A, Cart2Polar(l1, l2).phi, l1, l2, path, title, e)
        ELSE [exc |-> "ValueError", ret |-> <<>>, fs |-> fs]

Writebruk ==
    /\ \E l1 \in SeriesOne, l2 \in SeriesTwo, form \in Forms \ {PyNone}, e \in OpenDirErrors :
        LET out == WritebrukRun(l1, l2, ShapePath, form, "pynmr.pulse", e)
        IN  /\ fs' = out.fs
            /\ last' = [op |-> "writebruk", l1 |-> l1, l2 |-> l2, form |-> form,
                        exc |-> out.exc, ret |-> out.ret]
    /\ UNCHANGED readerVars

----------------------------------------------------------------------------
(* The specifications: one for each of the three independent parts of the *)
(* package, which share no state                                         *)

Init ==
    /\ pc = "idle"
    /\ file = <<>>
    /\ par = <<>>
    /\ pos = 0
    /\ l = <<>>
    /\ ans = <<>>
    /\ nreads = 0
    /\ result = <<>>
    /\ exc = "none"
    /\ diag = FALSE
    /\ fs \in Trees
    /\ last = [op |-> "none"]

\* the reader touches no file but the one it reads
InitReader == Init /\ \A p \in Paths : fs[p].kind = "none"

\* wparfile sees the directories of Dirs
InitWriter == Init /\ fs[ShapePath].kind = "none"

\* writebruk sees the path of the shape file
InitPulse == Init /\ \A p \in Paths \ {ShapePath} : fs[p].kind = "none"

NextReader ==
    \/ GetparCall
    \/ ScanPlain
    \/ ScanIndexed
    \/ ReadFirst
    \/ ListStep
    \/ ListEndPlain
    \/ ListEndIndexed
    \/ GetparReturn

NextWriter == Wparfile

NextPulse ==
    \/ Generate
    \/ Smoothing
    \/ Writebruk

SpecReader == InitReader /\ [][NextReader]_vars

SpecWriter == InitWriter /\ [][NextWriter]_vars

SpecPulse == InitPulse /\ [][NextPulse]_vars

----------------------------------------------------------------------------
(* What the reader's contract says, stated on the file as a whole *)

Ended == pc \in {"done", "raised"}

PlainName == ParShort(par) = par

\* the line starts, case-insensitively, with the directive
Matches(line, directive) == StartsWith(Lower(line), directive)

\* the first line of f that matches the directive, 0 if none does
FirstMatch(f, directive) ==
    IF \E i \in 1..Len(f) : Matches(f[i], directive)
    THEN CHOOSE i \in 1..Len(f) :
            Matches(f[i], directive) /\ \A j \in 1..(i - 1) : ~Matches(f[j], directive)
    ELSE 0

\* the token after the first space of the line, trailing whitespace removed
ValueToken(line) ==
    LET i == Find(line, " ")
        rest == SubSeq(line, i + 1, Len(line))
        j == Find(rest, " ")
    IN  IF i = 0 THEN <<>>
        ELSE RStrip(IF j = 0 THEN rest ELSE SubSeq(rest, 1, j - 1))

Parenthesised(tok) == tok # <<>> /\ tok[1] = "(" /\ tok[Len(tok)] = ")"

\* line j is the first line after line i that starts with "##"
ClosesList(f, i, j) ==
    /\ j \in (i + 1)..Len(f)
    /\ StartsWith(f[j], <<"#","#">>)
    /\ \A k \in (i + 1)..(j - 1) : ~StartsWith(f[k], <<"#","#">>)

\* the right-stripped lines a..b of f, joined by single spaces
RECURSIVE JoinLines(_, _, _)
JoinLines(f, a, b) ==
    IF a > b THEN <<>>
    ELSE IF a = b THEN RStrip(f[a])
    ELSE RStrip(f[a]) \o <<" ">> \o JoinLines(f, a + 1, b)

StripAngle(s) == StripChars(s, {"<", ">"})

\* the trailing integer of an indexed name
TrailingIndex(p) == ParseInt(SubSeq(p, Len(RStripChars(p, Digits)) + 1, Len(p)))

\* no line of the file matches the name's directive, nor, for an indexed
\* name, the directive of its base name
NoMatch ==
    \A i \in 1..Len(file) :
        /\ ~Matches(file[i], LongStr(par))
        /\ ~PlainName => ~Matches(file[i], ShortStr(par))

\* the first line that matches the full or the base name of an indexed name
FirstEither ==
    IF NoMatch THEN 0
    ELSE CHOOSE i \in 1..Len(file) :
            /\ Matches(file[i], LongStr(par)) \/ Matches(file[i], ShortStr(par))
            /\ \A j \in 1..(i - 1) :
                  ~Matches(file[j], LongStr(par)) /\ ~Matches(file[j], ShortStr(par))

----------------------------------------------------------------------------
(* The claims about getpar *)

\* C2: for an indexed name, whenever the file holds a directive line for the
\* full name, a call that ends returns that line's value, wherever the line
\* stands in the file.
C2_FullNameAlwaysWins ==
    (Ended /\ ~PlainName /\ FirstMatch(file, LongStr(par)) # 0) =>
        /\ pc = "done"
        /\ result = StripAngle(ValueToken(file[FirstMatch(file, LongStr(par))]))

\* C3 (as stated): for an indexed name <base><k> whose base-name directive
\* comes before any full-name directive, the call returns the token t[k]
\* of the continuation lines, and raises IndexError when k >= n.
C3_ReturnsRawToken ==
    (Ended /\ ~PlainName /\ FirstEither # 0 /\ ~Matches(file[FirstEither], LongStr(par))) =>
        \E j \in 1..Len(file) :
            /\ ClosesList(file, FirstEither, j)
            /\ LET t == SplitWS(JoinLines(file, FirstEither + 1, j - 1))
                   k == TrailingIndex(par)
               IN  IF k < Len(t)
                   THEN pc = "done" /\ result = t[k + 1]
                   ELSE pc = "raised" /\ exc = "IndexError"

\* C3 (amended): for an indexed name <base><k> whose base-name directive
\* comes before any full-name directive, a call that ends has read the
\* continuation lines up to the next line starting with "##"; with t their
\* whitespace-separated tokens, it returns t[k] with the characters < and >
\* stripped from both ends when k < n, and raises IndexError when k >= n.
C3_ReturnsStrippedToken ==
    (Ended /\ ~PlainName /\ FirstEither # 0 /\ ~Matches(file[FirstEither], LongStr(par))) =>
        \E j \in 1..Len(file) :
            /\ ClosesList(file, FirstEither, j)
            /\ LET t == SplitWS(JoinLines(file, FirstEither + 1, j - 1))
                   k == TrailingIndex(par)
               IN  IF k < Len(t)
                   THEN pc = "done" /\ result = StripAngle(t[k + 1])
                   ELSE pc = "raised" /\ exc = "IndexError"

\* C3 witness: CNST-style lookup of a token written <b>, returned as b
C3_Witness ==
    /\ pc = "done"
    /\ par = <<"C", "1">>
    /\ FirstEither # 0
    /\ ~Matches(file[FirstEither], LongStr(par))
    /\ file[FirstEither + 1] = LineTokens
    /\ result = <<"b">>

\* C4 (as stated): for a name with no trailing digits, the call returns the
\* value token of the first matching line, or, when that token is
\* parenthesised, the joined continuation lines up to the next "##" line.
C4_ReturnsRawValue ==
    (pc = "done" /\ PlainName /\ FirstMatch(file, LongStr(par)) # 0) =>
        LET i == FirstMatch(file, LongStr(par))
            tok == ValueToken(file[i])
        IN  IF Parenthesised(tok)
            THEN \E j \in 1..Len(file) :
                    /\ ClosesList(file, i, j)
                    /\ result = RStrip(JoinLines(file, i + 1, j - 1))
            ELSE result = tok

\* C4 (amended): for a name with no trailing digits and a file with a
\* matching line, a call that returns returns the value token of the first
\* matching line, or, when that token is parenthesised, the space-joined,
\* right-stripped continuation lines up to the next "##" line, in both cases
\* with the characters < and > stripped from both ends; nothing after the
\* directive, or after the "##" line, enters the result.  A call that raises
\* raises IndexError, and only when the matching line has no non-empty
\* token after a first space.
C4_ReturnsStrippedValue ==
    (Ended /\ PlainName /\ FirstMatch(file, LongStr(par)) # 0) =>
        LET i == FirstMatch(file, LongStr(par))
            tok == ValueToken(file[i])
        IN  IF pc = "raised"
            THEN exc = "IndexError" /\ tok = <<>>
            ELSE IF Parenthesised(tok)
            THEN \E j \in 1..Len(file) :
                    /\ ClosesList(file, i, j)
                    /\ result = StripAngle(RStrip(JoinLines(file, i + 1, j - 1)))
            ELSE tok # <<>> /\ result = StripAngle(tok)

\* C4 witness: a list of two continuation lines, read up to the ## line
C4_Witness ==
    /\ pc = "done"
    /\ par = <<"C">>
    /\ file = <<LineC, LineTokens, LineTokens, LineEnd>>
    /\ result = <<"a", " ", "<", "b", ">", " ", "a", " ", "<", "b">>

\* C5: when no line matches the name's directive (nor its base name's),
\* the call scans the whole file, does not raise, prints the diagnostic and
\* returns the empty string.
C5_NotFoundReturnsEmpty ==
    (pc # "idle" /\ NoMatch) =>
        /\ pc \in {"scan", "return", "done"}
        /\ exc = "none"
        /\ pc \in {"return", "done"} => pos = Len(file) /\ nreads = Len(file) + 1
        /\ pc = "done" => result = <<>> /\ diag

\* C5 witness: a full-length file without the directive, scanned to its end
C5_Witness ==
    /\ pc = "done"
    /\ NoMatch
    /\ Len(file) = MaxLines
    /\ pos = Len(file)
    /\ result = <<>>

\* C10: a call reads each line of the file at most once, and so issues at
\* most one read more than the file has lines, before it returns or raises.
C10_SinglePass == nreads <= Len(file) + 1

----------------------------------------------------------------------------
(* The claims about wparfile *)

\* the names and values of the last wparfile call differ in length
LengthsDiffer(call) == Len(Coerce(call.par)) # Len(Coerce(call.val))

\* C8: a call with as many names as values fails with the not-found error
\* and leaves the tree alone whenever <dir>/<expno> is not a directory; when
\* it is one, the call succeeds and <dir>/<expno> is still a directory.
C8_NeedsExperimentDirectory ==
    [][(last'.op = "wparfile" /\ ~LengthsDiffer(last')) =>
          IF IsDir(fs, ExpPath(last'.dir, last'.expno))
          THEN last'.exc = "none" /\ IsDir(fs', ExpPath(last'.dir, last'.expno))
          ELSE last'.exc = "OSError" /\ fs' = fs]_vars

\* C9: a call whose names and values differ in length after coercion raises
\* the length-mismatch error having issued no filesystem operation, and the
\* tree is as it was, whether or not the directory exists.
C9_MismatchBeforeIO ==
    [][(last'.op = "wparfile" /\ LengthsDiffer(last')) =>
          /\ last'.exc = "IndexError"
          /\ last'.ret = <<>>
          /\ last'.fsops = <<>>
          /\ fs' = fs]_vars

\* C9 witness: two names, one value, and a directory that exists
C9_Witness ==
    /\ last.op = "wparfile"
    /\ last.par = List(<<"P1", "P2">>)
    /\ last.val = List(<<10>>)
    /\ last.exc = "IndexError"
    /\ IsDir(fs, <<last.dir>>)

----------------------------------------------------------------------------
(* The claims about the pulse library *)

\* C1: writebruk called with form polar or cart on non-empty series of
\* equal length completes, writes the shape file and returns a peak
\* amplitude; called with any other form it raises.
C1_WritebrukAcceptsBothForms ==
    (last.op = "writebruk" /\ fs[ShapePath].kind # "dir") =>
        IF last.form \in {"polar", "cart"}
        THEN (last.l1 # <<>> /\ Len(last.l1) = Len(last.l2)) =>
                /\ last.exc = "none"
                /\ Len(last.ret) = 1
                /\ fs[ShapePath].kind = "file"
        ELSE last.exc = "ValueError"

\* the query is malformed in one of the ways the contract lists
MalformedAsStated(call) ==
    \/ call.type \notin {"wurst", "chirp", "saltire"}
    \/ call.type = "wurst" /\ call.smoothing < 1
    \/ call.type \in {"chirp", "saltire"} /\ (call.smoothing < 0 \/ call.smoothing > 50)
    \/ call.form \notin {"polar", "cart"}

\* the same, with the absent form (None) accepted as polar
Malformed(call) ==
    \/ call.type \notin {"wurst", "chirp", "saltire"}
    \/ call.type = "wurst" /\ call.smoothing < 1
    \/ call.type \in {"chirp", "saltire"} /\ (call.smoothing < 0 \/ call.smoothing > 50)
    \/ call.form \notin {"polar", "cart", PyNone}

\* C6 (as stated): generate raises exactly when the pulse type is unknown,
\* the smoothing is out of the type's range, or the form is neither polar
\* nor cart.
C6_FailsExactlyWhenMalformedAsStated ==
    last.op = "generate" => (last.exc # "none" <=> MalformedAsStated(last))

\* C6 (amended): generate raises (a ValueError) exactly when the pulse type
\* is unknown, the smoothing is out of the type's range, or the form is none
\* of polar, cart and None; in every other case, the boundary values
\* included, it returns a waveform of `points` samples.
C6_FailsExactlyWhenMalformed ==
    last.op = "generate" =>
        IF Malformed(last)
        THEN last.exc = "ValueError" /\ last.ret = <<>>
        ELSE /\ last.exc = "none"
             /\ Len(last.ret) = 1
             /\ last.ret[1].n = last.points
             /\ last.ret[1].repr = IF last.form = "cart" THEN "cart" ELSE "polar"

\* C6 witness: a chirp at the boundary smoothing 50, with the form left out
C6_Witness ==
    /\ last.op = "generate"
    /\ last.type = "chirp"
    /\ last.smoothing = 50
    /\ last.form = PyNone
    /\ last.exc = "none"

\* C7: smoothing with type sinebell returns an envelope of `points` values
\* when the smoothing value is >= 1, and raises the range error (a
\* ValueError) when it is < 1.
C7_SinebellUsable ==
    (last.op = "smoothing" /\ last.type = "sinebell") =>
        IF last.smooth_percentage >= 1
        THEN last.exc = "none" /\ Len(last.ret) = 1 /\ last.ret[1].n = last.points
        ELSE last.exc = "ValueError"

====
